---------------------------- MODULE Spec2Model ----------------------------
(***************************************************************************)
(* A model of fontTools.varLib.mutator (Lib/fontTools/varLib/mutator.py):  *)
(* the instantiation of a variable font at one location.                   *)
(*                                                                         *)
(* Numbers.  The code computes with Python floats.  The model keeps every  *)
(* non-integer quantity as an integer numerator over a fixed denominator:  *)
(* region scalars are counts of 1/SDen, dictionary operands are counts of  *)
(* 1/VDen, the values of a location are counts of 1/4.                     *)
(*                                                                         *)
(* Sequences are 1-based in TLA+ and 0-based in Python; the Python list    *)
(* operators below take and return 0-based indices, as the code does.      *)
(***************************************************************************)
EXTENDS Integers, Sequences, FiniteSets, TLC

VARIABLES
    \* interpolate_cff2_charstrings, one charstring
    program,        \* charstring.program
    new_program,    \* new_program
    last_i,         \* last_i
    cs_i,           \* the for loop's index i
    num_regions,    \* charstring.private.getNumRegions(vsindex)
    cs_scalars,     \* the variation store's region scalars for vsindex
    cs_pc,          \* "loop", "done" or "error" (an exception left the function)
    prog0,          \* the program as decompiled (history)
    underflowed,    \* a blend whose count, the token before it, puts its operands
                    \* before token 0 has been met (history)
    installed,      \* charstring.program = new_program was executed (history)
    \* interpolate_cff2_PrivateDict, one font dictionary
    rawDict,        \* pd.rawDict
    pd_k,           \* position of the loop over pd.rawDict.items()
    pd_scalars,     \* the variation store's region scalars for pd.vsindex
    pd_pc,          \* "loop" or "done"
    rawDict0,       \* pd.rawDict as read from the font (history)
    \* the cvar stage of instantiateVariableFont
    cvt,            \* varfont['cvt '].values
    cvar,           \* cvar.variations, each with its supportScalar at loc
    cv_deltas,      \* the dictionary deltas
    cv_k,           \* position of the loop over cvar.variations
    cv_pc,          \* "accumulate" or "done"
    cvt0,           \* the control values as read from the font (history)
    \* the glyf/gvar stage of instantiateVariableFont
    components,     \* glyf: each glyph's component glyph names ({}: not composite)
    variations,     \* gvar.variations.keys()
    glyphnames,     \* glyphnames, the sorted list
    gv_k,           \* position of the loop over glyphnames
    gv_pc,          \* "get" (before _GetCoordinates), "set" (before _SetCoordinates), "done"
    written,        \* the glyphs _SetCoordinates has been called for (history)
    \* instantiateVariableFont, stage by stage
    tables,         \* the tags of the tables in varfont
    location,       \* the caller's location: axis tag -> value, in quarters of a unit
    fn_pc,          \* the stage about to run, "done" (returned) or "error" (raised)
    names,          \* varfont['name'].names, each record by its nameID
    axisNameIDs,    \* a.axisNameID for a in fvar.axes
    instances,      \* fvar.instances
    records,        \* mvar.ValueRecord, each with its interpolated delta
    metrics,        \* the font-wide fields the MVAR registry names
    usWeightClass,  \* varfont["OS/2"].usWeightClass
    usWidthClass,   \* varfont["OS/2"].usWidthClass
    italicAngle,    \* varfont["post"].italicAngle, in quarters of a degree
    ran,            \* the stages that did their work (history)
    tables0,        \* the tables of the input font (history)
    names0          \* the name records of the input font (history)

csVars == <<program, new_program, last_i, cs_i, num_regions, cs_scalars,
            cs_pc, prog0, underflowed, installed>>
pdVars == <<rawDict, pd_k, pd_scalars, pd_pc, rawDict0>>
cvVars == <<cvt, cvar, cv_deltas, cv_k, cv_pc, cvt0>>

gvVars == <<components, variations, glyphnames, gv_k, gv_pc, written>>

fontVars == <<tables, location, fn_pc, names, axisNameIDs, instances, records,
              metrics, usWeightClass, usWidthClass, italicAngle, ran, tables0, names0>>

vars == <<csVars, pdVars, cvVars, gvVars, fontVars>>

notCs == <<pdVars, cvVars, gvVars, fontVars>>
notPd == <<csVars, cvVars, gvVars, fontVars>>
notCv == <<csVars, pdVars, gvVars, fontVars>>
notGv == <<csVars, pdVars, cvVars, fontVars>>
notFont == <<csVars, pdVars, cvVars, gvVars>>

-----------------------------------------------------------------------------
(* Bounds of the model *)

SDen == 2
VDen == 2
CsMaxSegs == 3
CsMaxRegions == 1
PdMaxRegions == 1
PdMaxList == 2
CvMaxVars == 2
NGlyphs == 3
MaxNames == 3
MaxRecords == 2

ScalarVals == 0..SDen

-----------------------------------------------------------------------------
(* Python list semantics *)

Min(a, b) == IF a < b THEN a ELSE b
Max(a, b) == IF a > b THEN a ELSE b

\* a negative index counts from the end
PyNorm(idx, n) == IF idx < 0 THEN idx + n ELSE idx

\* seq[idx] does not raise IndexError
PyIndexOk(seq, idx) ==
    LET j == PyNorm(idx, Len(seq)) IN j >= 0 /\ j < Len(seq)

\* seq[idx]
PyGet(seq, idx) == seq[PyNorm(idx, Len(seq)) + 1]

\* seq[idx] = x
PySet(seq, idx, x) == [seq EXCEPT ![PyNorm(idx, Len(seq)) + 1] = x]

\* seq[a:b]: bounds are normalised, then clamped; never raises
PySlice(seq, a, b) ==
    LET n == Len(seq)
        lo == Max(0, Min(n, PyNorm(a, n)))
        hi == Max(0, Min(n, PyNorm(b, n)))
    IN  IF lo < hi THEN SubSeq(seq, lo + 1, hi) ELSE <<>>

-----------------------------------------------------------------------------
(* Rounding and interpolation (fontTools.misc.fixedTools, varLib.varStore) *)

Abs(x) == IF x < 0 THEN -x ELSE x

\* otRound(n / d): the nearest integer, a half rounding away from zero
otRound(n, d) ==
    IF n >= 0 THEN (2 * n + d) \div (2 * d)
              ELSE -((2 * (-n) + d) \div (2 * d))

\* Charstring tokens: a number or an operator
Num(v) == [k |-> "num", v |-> v]
Op(name) == [k |-> name, v |-> 0]
Blend == Op("blend")
IsNum(t) == t.k = "num"

\* interpolateFromDeltas(vsindex, deltas): the sum of delta * scalar over
\* zip(deltas, scalars), sc being the region scalars of vsindex at the
\* location.  The result is a numerator over SDen times the deltas' own
\* denominator.
RECURSIVE interpolateFromDeltas(_, _)
interpolateFromDeltas(sc, deltas) ==
    IF Len(deltas) = 0 \/ Len(sc) = 0 THEN 0
    ELSE Head(deltas) * Head(sc) + interpolateFromDeltas(Tail(sc), Tail(deltas))

\* The same over charstring tokens.  err: an operator token met a non-zero
\* scalar (a TypeError); a region of scalar 0 is skipped unread.
interpolateTokens(sc, deltas) ==
    LET n == Min(Len(sc), Len(deltas))
    IN  IF \E j \in 1..n : sc[j] # 0 /\ ~IsNum(deltas[j])
        THEN [err |-> TRUE, num |-> 0]
        ELSE [err |-> FALSE,
              num |-> interpolateFromDeltas(sc, [j \in 1..n |-> deltas[j].v])]

-----------------------------------------------------------------------------
(* interpolate_cff2_charstrings *)

\* The while loop of one blend: each operand takes the next num_regions
\* tokens as its deltas and is updated in place.
RECURSIVE BlendArgs(_, _, _, _, _, _)
BlendArgs(prog, argi, end_args, tuplei, nreg, sc) ==
    IF ~(argi < end_args) THEN [err |-> FALSE, program |-> prog]
    ELSE LET next_ti == tuplei + nreg
             deltas == PySlice(prog, tuplei, next_ti)
             delta == interpolateTokens(sc, deltas)
         IN  IF delta.err \/ ~PyIndexOk(prog, argi) THEN [err |-> TRUE, program |-> prog]
             ELSE IF ~IsNum(PyGet(prog, argi)) THEN [err |-> TRUE, program |-> prog]
             ELSE BlendArgs(
                     PySet(prog, argi,
                           Num(PyGet(prog, argi).v + otRound(delta.num, SDen))),
                     argi + 1, end_args, next_ti, nreg, sc)

\* argi = i - (num_args*numMasters + 1)
FirstArg(idx, num_args, numMasters) == idx - (num_args * numMasters + 1)

\* a variant that resumes at the marker instead of after it
NextLast_AtMarker(idx) == idx

\* last_i = i + 1
NextLast(idx) == idx + 1

\* The body of "if token == 'blend'" at index idx (0-based)
BlendAt(prog, idx, nreg, sc) ==
    LET tok == PyGet(prog, idx - 1)
        numMasters == nreg + 1
    IN  IF ~IsNum(tok) THEN [err |-> TRUE, program |-> prog, end_args |-> 0, under |-> FALSE]
        ELSE LET num_args == tok.v
                 argi == FirstArg(idx, num_args, numMasters)
                 end_args == argi + num_args
                 r == BlendArgs(prog, argi, end_args, end_args, nreg, sc)
             IN  [err |-> r.err, program |-> r.program, end_args |-> end_args,
                  under |-> idx >= 1 /\ argi < 0]

\* a token that is not 'blend': the loop moves on
CsScan ==
    /\ cs_pc = "loop"
    /\ cs_i < Len(program)
    /\ PyGet(program, cs_i) # Blend
    /\ cs_i' = cs_i + 1
    /\ UNCHANGED <<program, new_program, last_i, num_regions, cs_scalars,
                   cs_pc, prog0, underflowed, installed, notCs>>

\* a 'blend' token whose operands resolve
CsBlend ==
    /\ cs_pc = "loop"
    /\ cs_i < Len(program)
    /\ PyGet(program, cs_i) = Blend
    /\ LET r == BlendAt(program, cs_i, num_regions, cs_scalars)
       IN  /\ ~r.err
           /\ program' = r.program
           /\ new_program' = new_program \o PySlice(r.program, last_i, r.end_args)
           /\ underflowed' = (underflowed \/ r.under)
    /\ last_i' = NextLast(cs_i)
    /\ cs_i' = cs_i + 1
    /\ UNCHANGED <<num_regions, cs_scalars, cs_pc, prog0, installed, notCs>>

\* a 'blend' token whose resolution raises (TypeError, IndexError)
CsBlendRaise ==
    /\ cs_pc = "loop"
    /\ cs_i < Len(program)
    /\ PyGet(program, cs_i) = Blend
    /\ LET r == BlendAt(program, cs_i, num_regions, cs_scalars)
       IN  /\ r.err
           /\ program' = r.program
           /\ underflowed' = (underflowed \/ r.under)
    /\ cs_pc' = "error"
    /\ UNCHANGED <<new_program, last_i, cs_i, num_regions, cs_scalars, prog0, installed,
                   notCs>>

\* after the loop, a program that had a blend is replaced
CsInstall ==
    /\ cs_pc = "loop"
    /\ cs_i = Len(program)
    /\ last_i # 0
    /\ program' = new_program \o PySlice(program, last_i, Len(program))
    /\ new_program' = program'
    /\ installed' = TRUE
    /\ cs_pc' = "done"
    /\ UNCHANGED <<last_i, cs_i, num_regions, cs_scalars, prog0, underflowed,
                   notCs>>

\* after the loop, a program without blend is left as it is
CsKeep ==
    /\ cs_pc = "loop"
    /\ cs_i = Len(program)
    /\ last_i = 0
    /\ cs_pc' = "done"
    /\ UNCHANGED <<program, new_program, last_i, cs_i, num_regions, cs_scalars,
                   prog0, underflowed, installed, notCs>>

\* Inputs: a program is up to CsMaxSegs segments, each one token or one blend
\* laid out as the operator expects.
CsNumVals == {0, 1, 2}
CsArgCounts == {1, 2}

Repeat(x, n) == [j \in 1..n |-> x]

BlendGroup(K, nreg) ==
    [j \in 1..K |-> Num(j)] \o Repeat(Num(1), K * nreg) \o <<Num(K), Blend>>

CsSegments(nreg) ==
    {<<Num(v)>> : v \in CsNumVals} \cup {<<Blend>>, <<Op("rmoveto")>>}
        \cup {BlendGroup(K, nreg) : K \in CsArgCounts}

RECURSIVE CsPrograms(_, _)
CsPrograms(n, nreg) ==
    IF n = 0 THEN {<<>>}
    ELSE LET P == CsPrograms(n - 1, nreg)
         IN  P \cup {p \o s : p \in P, s \in CsSegments(nreg)}

\* the other functions are not running
CsIdle ==
    /\ program = <<>> /\ prog0 = <<>> /\ new_program = <<>>
    /\ last_i = 0 /\ cs_i = 0 /\ num_regions = 0 /\ cs_scalars = <<>>
    /\ cs_pc = "idle" /\ underflowed = FALSE /\ installed = FALSE

PdIdle ==
    /\ rawDict = <<>> /\ rawDict0 = <<>> /\ pd_k = 0 /\ pd_scalars = <<>>
    /\ pd_pc = "idle"

CvIdle ==
    /\ cvt = <<>> /\ cvt0 = <<>> /\ cvar = <<>> /\ cv_deltas = <<>> /\ cv_k = 0
    /\ cv_pc = "idle"

GvIdle ==
    /\ components = <<>> /\ variations = {} /\ glyphnames = <<>> /\ gv_k = 0
    /\ gv_pc = "idle" /\ written = {}

FontIdle ==
    /\ tables = {} /\ tables0 = {} /\ location = <<>> /\ fn_pc = "idle"
    /\ names = <<>> /\ names0 = <<>> /\ axisNameIDs = <<>> /\ instances = <<>>
    /\ records = <<>> /\ metrics = <<>> /\ usWeightClass = 0 /\ usWidthClass = 0
    /\ italicAngle = 0 /\ ran = {}

CsInit ==
    /\ num_regions \in 0..CsMaxRegions
    /\ cs_scalars \in [1..num_regions -> ScalarVals]
    /\ program \in CsPrograms(CsMaxSegs, num_regions)
    /\ prog0 = program
    /\ new_program = <<>>
    /\ last_i = 0
    /\ cs_i = 0
    /\ cs_pc = "loop"
    /\ underflowed = FALSE
    /\ installed = FALSE

CsNext == CsScan \/ CsBlend \/ CsBlendRaise \/ CsInstall \/ CsKeep

InitCS == CsInit /\ PdIdle /\ CvIdle /\ GvIdle /\ FontIdle

SpecCS == InitCS /\ [][CsNext]_vars

-----------------------------------------------------------------------------
(* Claims about interpolate_cff2_charstrings.  Indices here are 1-based. *)

BlendIdx(p) == {i \in 1..Len(p) : p[i] = Blend}

\* the operand count K written before the marker at i
CountOf(p, i) == p[i - 1].v

\* where the K operands of the marker at i start
OperandStart(p, i, nreg) == i - (CountOf(p, i) * (nreg + 1) + 1)

PrevMarker(p, i) ==
    LET S == {j \in BlendIdx(p) : j < i}
    IN  IF S = {} THEN 0 ELSE CHOOSE j \in S : \A h \in S : h <= j

\* every blend is K operands, K runs of nreg deltas, the count K, the marker
WellFormedBlends(p, nreg) ==
    \A i \in BlendIdx(p) :
        /\ i >= 2
        /\ IsNum(p[i - 1])
        /\ CountOf(p, i) >= 0
        /\ OperandStart(p, i, nreg) > PrevMarker(p, i)
        /\ \A j \in OperandStart(p, i, nreg)..(i - 1) : IsNum(p[j])

OperandIdx(p, nreg) ==
    UNION {OperandStart(p, i, nreg)..(OperandStart(p, i, nreg) + CountOf(p, i) - 1)
           : i \in BlendIdx(p)}

RemovedIdx(p, nreg) ==
    UNION {(OperandStart(p, i, nreg) + CountOf(p, i))..i : i \in BlendIdx(p)}

RECURSIVE Shortening(_, _, _)
Shortening(p, nreg, S) ==
    IF S = {} THEN 0
    ELSE LET i == CHOOSE x \in S : TRUE
             K == CountOf(p, i)
         IN  (K * (nreg + 1) + 2 - K) + Shortening(p, nreg, S \ {i})

\* the j-th smallest element of S
Nth(S, j) == CHOOSE x \in S : Cardinality({y \in S : y < x}) = j - 1

\* C1: a program of well-formed blends comes out shorter by K*numMasters + 2 - K
\* tokens per blend, with a number at each of the K operand positions of each
\* blend and every other kept token unchanged and in its original order.
C1_BlendShortening ==
    (cs_pc = "done" /\ WellFormedBlends(prog0, num_regions)) =>
        LET kept == (1..Len(prog0)) \ RemovedIdx(prog0, num_regions)
        IN  /\ Len(program) =
                 Len(prog0) - Shortening(prog0, num_regions, BlendIdx(prog0))
            /\ Len(program) = Cardinality(kept)
            /\ \A j \in 1..Len(program) :
                 LET o == Nth(kept, j)
                 IN  IF o \in OperandIdx(prog0, num_regions)
                     THEN IsNum(program[j])
                     ELSE program[j] = prog0[o]

C1_Witness ==
    /\ cs_pc = "done"
    /\ WellFormedBlends(prog0, num_regions)
    /\ num_regions >= 1
    /\ Cardinality(BlendIdx(prog0)) >= 2
    /\ \E i \in BlendIdx(prog0) : CountOf(prog0, i) = 2
    /\ \E j \in 1..Len(prog0) : prog0[j] = Op("rmoveto")
    /\ installed

\* C3: a blend whose operand count puts its operands before the first token
\* ends the resolution in a failure; no program is installed after it.
C3_UnderflowFails == underflowed => (cs_pc # "done" /\ ~installed)


-----------------------------------------------------------------------------
(* interpolate_cff2_PrivateDict *)

\* A dictionary value is a number, a blend list [base, delta_1 .. delta_n], a
\* list of numbers or a list of blend lists.  All four are kept as a tag and
\* a sequence of items [base, deltas]; a number has no deltas.  Bases and
\* deltas are numerators over VDen.
Item(b, ds) == [base |-> b, deltas |-> ds]
Plain(n) == [t |-> "num", items |-> <<Item(n, <<>>)>>]
BlendList(b, ds) == [t |-> "blend", items |-> <<Item(b, ds)>>]
PlainList(ns) == [t |-> "nums", items |-> [j \in 1..Len(ns) |-> Item(ns[j], <<>>)]]
ListOfBlendLists(its) == [t |-> "blends", items |-> its]

pd_blend_lists == {"BlueValues", "OtherBlues", "FamilyBlues",
                   "FamilyOtherBlues", "StemSnapH", "StemSnapV"}
pd_blend_values == {"BlueScale", "BlueShift", "BlueFuzz", "StdHW", "StdVW"}

\* otRound(interpolateFromDeltas(vsindex, val_list[1:]))
RoundedDelta(sc, ds) == otRound(interpolateFromDeltas(sc, ds), VDen * SDen)

\* pd.rawDict[key] = otRound(value[0] + delta)
ResolveBlendValue(value, sc) ==
    LET it == value.items[1]
        delta == interpolateFromDeltas(sc, it.deltas)
    IN  Plain(VDen * otRound(it.base * SDen + delta, VDen * SDen))

\* a variant of the accumulation below that does not carry delta along
Accumulate_NotCarried(delta, rounded) == rounded

\* delta += otRound(...)
Accumulate(delta, rounded) == delta + rounded

\* the loop over the elements of a list of blend lists, delta carried along
RECURSIVE ResolveFrom(_, _, _, _)
ResolveFrom(items, j, delta, sc) ==
    IF j > Len(items) THEN <<>>
    ELSE LET d == Accumulate(delta, RoundedDelta(sc, items[j].deltas))
         IN  <<items[j].base + VDen * d>> \o ResolveFrom(items, j + 1, d, sc)

ResolveBlendLists(value, sc) == PlainList(ResolveFrom(value.items, 1, 0, sc))

\* the keys of pd.rawDict, in the dictionary's order
PdKeys == <<"BlueValues", "BlueScale", "LanguageGroup">>

PdKey == PdKeys[pd_k]

\* isinstance(value, list)
IsList(value) == value.t # "num"

\* isinstance(value[0], list)
FirstIsList(value) == value.t = "blends"

PdBlendValue ==
    /\ pd_pc = "loop"
    /\ pd_k <= Len(PdKeys)
    /\ PdKey \in pd_blend_values /\ IsList(rawDict[PdKey])
    /\ rawDict' = [rawDict EXCEPT ![PdKey] = ResolveBlendValue(@, pd_scalars)]
    /\ pd_k' = pd_k + 1
    /\ UNCHANGED <<pd_scalars, pd_pc, rawDict0, notPd>>

PdBlendLists ==
    /\ pd_pc = "loop"
    /\ pd_k <= Len(PdKeys)
    /\ ~(PdKey \in pd_blend_values /\ IsList(rawDict[PdKey]))
    /\ PdKey \in pd_blend_lists /\ FirstIsList(rawDict[PdKey])
    /\ rawDict' = [rawDict EXCEPT ![PdKey] = ResolveBlendLists(@, pd_scalars)]
    /\ pd_k' = pd_k + 1
    /\ UNCHANGED <<pd_scalars, pd_pc, rawDict0, notPd>>

\* any other key, and a key whose value holds no blend
PdOther ==
    /\ pd_pc = "loop"
    /\ pd_k <= Len(PdKeys)
    /\ ~(PdKey \in pd_blend_values /\ IsList(rawDict[PdKey]))
    /\ ~(PdKey \in pd_blend_lists /\ FirstIsList(rawDict[PdKey]))
    /\ pd_k' = pd_k + 1
    /\ UNCHANGED <<rawDict, pd_scalars, pd_pc, rawDict0, notPd>>

PdReturn ==
    /\ pd_pc = "loop"
    /\ pd_k > Len(PdKeys)
    /\ pd_pc' = "done"
    /\ UNCHANGED <<rawDict, pd_k, pd_scalars, rawDict0, notPd>>

\* Inputs
PdBaseVals == {0, 1, 2}
PdDeltaVals == {-3, -1, 2}

RECURSIVE SeqsUpTo(_, _)
SeqsUpTo(S, n) ==
    IF n = 0 THEN {<<>>}
    ELSE LET P == SeqsUpTo(S, n - 1)
         IN  P \cup {Append(q, x) : q \in {r \in P : Len(r) = n - 1}, x \in S}

PdItems(nreg) == {Item(b, ds) : b \in PdBaseVals, ds \in [1..nreg -> PdDeltaVals]}

PdScalarValues(nreg) ==
    {Plain(b) : b \in PdBaseVals}
        \cup {BlendList(it.base, it.deltas) : it \in PdItems(nreg)}

PdListValues(nreg) ==
    {PlainList(<<0, 2>>)}
        \cup {ListOfBlendLists(its) : its \in SeqsUpTo(PdItems(nreg), PdMaxList) \ {<<>>}}

PdInit ==
    /\ \E nreg \in 1..PdMaxRegions :
        /\ pd_scalars \in [1..nreg -> ScalarVals]
        /\ \E lv \in PdListValues(nreg), sv \in PdScalarValues(nreg) :
            /\ lv = PlainList(<<0, 2>>) \/ sv = Plain(1)
            /\ rawDict = [key \in {PdKeys[j] : j \in 1..Len(PdKeys)} |->
                            IF key = "BlueValues" THEN lv
                            ELSE IF key = "BlueScale" THEN sv
                            ELSE Plain(0)]
    /\ rawDict0 = rawDict
    /\ pd_k = 1
    /\ pd_pc = "loop"

PdNext == PdBlendValue \/ PdBlendLists \/ PdOther \/ PdReturn

InitPD == PdInit /\ CsIdle /\ CvIdle /\ GvIdle /\ FontIdle

SpecPD == InitPD /\ [][PdNext]_vars

-----------------------------------------------------------------------------
(* Claims about interpolate_cff2_PrivateDict *)

\* C8: a scalar parameter stored as the blend list (base, delta_1 .. delta_n)
\* resolves to base + round(interpolate(vsindex, deltas)), the base unrounded.
C8_ScalarBlend ==
    pd_pc = "done" =>
        \A key \in (DOMAIN rawDict) \cap pd_blend_values :
            rawDict0[key].t = "blend" =>
                LET it == rawDict0[key].items[1]
                IN  rawDict[key] =
                        Plain(it.base + VDen * RoundedDelta(pd_scalars, it.deltas))

\* the i-th resolved element of a list: its base plus its own rounded blend
ResolvedElement(items, j) ==
    items[j].base + VDen * RoundedDelta(pd_scalars, items[j].deltas)

\* the claim's reading: every output is the previous output plus the
\* resolved element
RECURSIVE ChainedOutput(_, _)
ChainedOutput(items, j) ==
    IF j = 0 THEN 0 ELSE ChainedOutput(items, j - 1) + ResolvedElement(items, j)

\* the sum of the rounded blends of elements 1..j
RECURSIVE DeltasToDate(_, _)
DeltasToDate(items, j) ==
    IF j = 0 THEN 0
    ELSE DeltasToDate(items, j - 1) + RoundedDelta(pd_scalars, items[j].deltas)

PdBlendListKeys ==
    {key \in (DOMAIN rawDict0) \cap pd_blend_lists : rawDict0[key].t = "blends"}

\* C9 as claimed: the i-th output of a list-valued parameter is the (i-1)-th
\* output plus the i-th resolved element, the accumulator starting at 0.
C9_ListChained ==
    pd_pc = "done" =>
        \A key \in PdBlendListKeys :
            LET items == rawDict0[key].items
            IN  rawDict[key] =
                    PlainList([j \in 1..Len(items) |-> ChainedOutput(items, j)])

\* C9 as amended: the i-th output is the i-th element's own base plus the
\* running sum, started at 0 and carried across the list, of the rounded
\* interpolated deltas of elements 1..i; the bases are not accumulated.
C9_ListDeltasToDate ==
    pd_pc = "done" =>
        \A key \in PdBlendListKeys :
            LET items == rawDict0[key].items
            IN  rawDict[key] =
                    PlainList([j \in 1..Len(items) |->
                                 items[j].base + VDen * DeltasToDate(items, j)])

C9_Witness ==
    /\ pd_pc = "done"
    /\ \E key \in PdBlendListKeys :
        LET items == rawDict0[key].items
        IN  /\ Len(items) >= 2
            /\ RoundedDelta(pd_scalars, items[1].deltas) # 0
            /\ RoundedDelta(pd_scalars, items[2].deltas) # 0
            /\ items[1].base # 0


-----------------------------------------------------------------------------
(* instantiateVariableFont: the cvt/cvar stage *)

\* A coordinate of a cvar variation: None, or a delta
None == [none |-> TRUE, c |-> 0]
Delta(c) == [none |-> FALSE, c |-> c]

\* a variation with its scalar = supportScalar(loc, var.axes), a numerator
\* over SDen
Variation(scalar, coordinates) == [scalar |-> scalar, coordinates |-> coordinates]

\* deltas.get(i, 0)
DictGet(d, j) == IF j \in DOMAIN d THEN d[j] ELSE 0

\* a variant of the accumulation below that rounds every region's contribution
AddDelta_RoundedEach(d, j, scalar, c) ==
    DictGet(d, j) + SDen * otRound(scalar * c, SDen)

\* deltas[i] = deltas.get(i, 0) + scalar * c
AddDelta(d, j, scalar, c) == DictGet(d, j) + scalar * c

\* the loop over var.coordinates for one variation
AccumulateVariation(d, var) ==
    LET given == {j \in 1..Len(var.coordinates) : ~var.coordinates[j].none}
    IN  [j \in (DOMAIN d) \cup given |->
            IF j \in given THEN AddDelta(d, j, var.scalar, var.coordinates[j].c)
            ELSE d[j]]

\* for i, delta in deltas.items(): cvt[i] += otRound(delta)
ApplyDeltas(values, d) ==
    [j \in 1..Len(values) |->
        IF j \in DOMAIN d THEN values[j] + otRound(d[j], SDen) ELSE values[j]]

\* if not scalar: continue
CvSkip ==
    /\ cv_pc = "accumulate"
    /\ cv_k <= Len(cvar)
    /\ cvar[cv_k].scalar = 0
    /\ cv_k' = cv_k + 1
    /\ UNCHANGED <<cvt, cvar, cv_deltas, cv_pc, cvt0, notCv>>

CvAccumulate ==
    /\ cv_pc = "accumulate"
    /\ cv_k <= Len(cvar)
    /\ cvar[cv_k].scalar # 0
    /\ cv_deltas' = AccumulateVariation(cv_deltas, cvar[cv_k])
    /\ cv_k' = cv_k + 1
    /\ UNCHANGED <<cvt, cvar, cv_pc, cvt0, notCv>>

CvApply ==
    /\ cv_pc = "accumulate"
    /\ cv_k > Len(cvar)
    /\ cvt' = ApplyDeltas(cvt, cv_deltas)
    /\ cv_pc' = "done"
    /\ UNCHANGED <<cvar, cv_deltas, cv_k, cvt0, notCv>>

\* Inputs
CvValues == {<<10, -20>>, <<0, 3>>}

CvCoordVals == {None, Delta(-4), Delta(-1)}

\* the second control value gets the opposite deltas of those drawn
CvCoordinates ==
    {<<a, IF b.none THEN None ELSE Delta(-b.c)>> : a \in CvCoordVals, b \in CvCoordVals}

CvVariations == {Variation(sc, co) : sc \in ScalarVals, co \in CvCoordinates}

CvInit ==
    /\ cvt \in CvValues
    /\ cvt0 = cvt
    /\ cvar \in SeqsUpTo(CvVariations, CvMaxVars)
    /\ cv_deltas = <<>>
    /\ cv_k = 1
    /\ cv_pc = "accumulate"

CvNext == CvSkip \/ CvAccumulate \/ CvApply

InitCvt == CvInit /\ CsIdle /\ PdIdle /\ GvIdle /\ FontIdle

SpecCvt == InitCvt /\ [][CvNext]_vars

-----------------------------------------------------------------------------
(* Claims about the cvt/cvar stage *)

\* the regions that contribute to control value j
Contributing(j) ==
    {r \in 1..Len(cvar) : cvar[r].scalar # 0 /\ ~cvar[r].coordinates[j].none}

\* the unrounded total of scalar * delta over S, a numerator over SDen
RECURSIVE TotalOver(_, _)
TotalOver(j, S) ==
    IF S = {} THEN 0
    ELSE LET r == CHOOSE x \in S : TRUE
         IN  cvar[r].scalar * cvar[r].coordinates[j].c + TotalOver(j, S \ {r})

\* r is n/d rounded to the nearest integer, a half going away from zero
IsRoundHalfAway(r, n, d) ==
    /\ 2 * Abs(r * d - n) <= d
    /\ (2 * Abs(r * d - n) = d) => (Abs(r) * d > Abs(n))

\* C7: a control value with a specified delta in some region of non-zero
\* scalar becomes baseValue + round(sum): the sum of scalar * delta over
\* those regions, rounded once, a half going away from zero.
C7_CvtRoundedOnce ==
    cv_pc = "done" =>
        \A j \in 1..Len(cvt0) :
            Contributing(j) # {} =>
                IsRoundHalfAway(cvt[j] - cvt0[j], TotalOver(j, Contributing(j)), SDen)

C7_Witness ==
    /\ cv_pc = "done"
    /\ Cardinality(Contributing(1)) = 2
    /\ 2 * TotalOver(1, Contributing(1)) = -5 * SDen
    /\ cvt[1] = cvt0[1] - 3
    /\ 2 * TotalOver(2, Contributing(2)) = 5 * SDen
    /\ cvt[2] = cvt0[2] + 3


-----------------------------------------------------------------------------
(* instantiateVariableFont: the glyf/gvar stage *)

\* Glyph names are the integers 1..NGlyphs, in the order of their names
Glyphs == 1..NGlyphs

\* glyf[name].isComposite()
isComposite(comps, g) == comps[g] # {}

RECURSIVE MaxOf(_)
MaxOf(S) ==
    IF S = {} THEN 0
    ELSE LET x == CHOOSE y \in S : TRUE IN Max(x, MaxOf(S \ {x}))

\* glyf[name].getCompositeMaxpValues(glyf).maxComponentDepth: the deepest
\* nesting of components below a composite glyph
RECURSIVE maxComponentDepth(_, _)
maxComponentDepth(comps, g) ==
    1 + MaxOf({IF isComposite(comps, c) THEN maxComponentDepth(comps, c) ELSE 0
               : c \in comps[g]})

\* the first element of the sort key
DepthKey(comps, g) == IF isComposite(comps, g) THEN maxComponentDepth(comps, g) ELSE 0

\* the sort key (depth, name), compared as Python compares tuples
KeyLess(comps, g, h) ==
    \/ DepthKey(comps, g) < DepthKey(comps, h)
    \/ DepthKey(comps, g) = DepthKey(comps, h) /\ g < h

\* a variant of the sort below by name alone
SortedGlyphNames_ByName(comps, keys) ==
    [j \in 1..Cardinality(keys) |->
        CHOOSE g \in keys : Cardinality({h \in keys : h < g}) = j - 1]

\* sorted(gvar.variations.keys(), key=...)
SortedGlyphNames(comps, keys) ==
    [j \in 1..Cardinality(keys) |->
        CHOOSE g \in keys : Cardinality({h \in keys : KeyLess(comps, h, g)}) = j - 1]

\* coordinates,_ = _GetCoordinates(varfont, glyphname)
GvGet ==
    /\ gv_pc = "get"
    /\ gv_k <= Len(glyphnames)
    /\ gv_pc' = "set"
    /\ UNCHANGED <<components, variations, glyphnames, gv_k, written, notGv>>

\* the deltas are added and _SetCoordinates(varfont, glyphname, coordinates)
GvSet ==
    /\ gv_pc = "set"
    /\ written' = written \cup {glyphnames[gv_k]}
    /\ gv_k' = gv_k + 1
    /\ gv_pc' = "get"
    /\ UNCHANGED <<components, variations, glyphnames, notGv>>

GvEnd ==
    /\ gv_pc = "get"
    /\ gv_k > Len(glyphnames)
    /\ gv_pc' = "done"
    /\ UNCHANGED <<components, variations, glyphnames, gv_k, written, notGv>>

\* Inputs: the component references of a font form no cycle
RECURSIVE ReachIn(_, _, _)
ReachIn(comps, S, n) ==
    IF n = 0 THEN S
    ELSE ReachIn(comps, S \cup UNION {comps[g] : g \in S}, n - 1)

\* the glyphs g references, directly or through nested components
Referenced(comps, g) == ReachIn(comps, comps[g], NGlyphs)

Acyclic(comps) == \A g \in Glyphs : g \notin Referenced(comps, g)

GvInit ==
    /\ components \in [Glyphs -> SUBSET Glyphs]
    /\ Acyclic(components)
    /\ variations \in SUBSET Glyphs
    /\ glyphnames = SortedGlyphNames(components, variations)
    /\ gv_k = 1
    /\ gv_pc = "get"
    /\ written = {}

GvNext == GvGet \/ GvSet \/ GvEnd

InitGlyf == GvInit /\ CsIdle /\ PdIdle /\ CvIdle /\ FontIdle

SpecGlyf == InitGlyf /\ [][GvNext]_vars

-----------------------------------------------------------------------------
(* Claims about the glyf/gvar stage *)

\* C10: glyphs with variation data are instanced in ascending order of
\* component depth, ties by name, and when a composite glyph's coordinates
\* are read every glyph with variation data that it references has been
\* written and is not written again.
C10_ComponentsFirst ==
    /\ \A a, b \in 1..Len(glyphnames) :
           a < b => KeyLess(components, glyphnames[a], glyphnames[b])
    /\ {glyphnames[j] : j \in 1..Len(glyphnames)} = variations
    /\ gv_pc = "set" =>
           \A h \in Referenced(components, glyphnames[gv_k]) \cap variations :
               /\ h \in written
               /\ \A j \in gv_k..Len(glyphnames) : glyphnames[j] # h

\* a composite with the smallest name that nests a composite with variation data
C10_Witness ==
    /\ gv_pc = "set"
    /\ glyphnames[gv_k] = 1
    /\ \E h \in components[1] \cap variations :
           /\ isComposite(components, h)
           /\ components[h] \cap variations # {}


-----------------------------------------------------------------------------
(* instantiateVariableFont *)

\* percents, in quarters of a percent
percents == <<200, 250, 300, 350, 400, 450, 500, 600, 800>>

\* half = (prev + curr) / 2
Half(prev, curr) == (prev + curr) \div 2

\* OS2_WIDTH_CLASS_VALUES[half] = i, for i, (prev, curr) counted from 1
OS2_WIDTH_CLASS_VALUES ==
    {[percent |-> Half(percents[j], percents[j + 1]), widthClass |-> j]
     : j \in 1..(Len(percents) - 1)}

\* sorted(OS2_WIDTH_CLASS_VALUES.items())
SortedItems(S) ==
    [j \in 1..Cardinality(S) |->
        CHOOSE it \in S : Cardinality({o \in S : o.percent < it.percent}) = j - 1]

\* a variant of the comparison below that also takes an equal midpoint
Below_OrEqual(wdth, percent) == wdth <= percent

\* if wdth < percent
Below(wdth, percent) == wdth < percent

\* the for loop with its break, and its else clause
RECURSIVE WidthClassFrom(_, _, _)
WidthClassFrom(items, j, wdth) ==
    IF j > Len(items) THEN 9
    ELSE IF Below(wdth, items[j].percent) THEN items[j].widthClass
    ELSE WidthClassFrom(items, j + 1, wdth)

WidthClass(wdth) == WidthClassFrom(SortedItems(OS2_WIDTH_CLASS_VALUES), 1, wdth)

\* a variant of the list below without STAT
VariableTables_NoSTAT == <<"avar", "cvar", "fvar", "gvar", "HVAR", "MVAR", "VVAR">>

\* the tables deleted at the end, in the loop's order
VariableTables == <<"avar", "cvar", "fvar", "gvar", "HVAR", "MVAR", "VVAR", "STAT">>

\* for tag in (...): if tag in varfont: del varfont[tag]
RECURSIVE DeleteTables(_, _, _)
DeleteTables(tabs, tags, j) ==
    IF j > Len(tags) THEN tabs
    ELSE DeleteTables(IF tags[j] \in tabs THEN tabs \ {tags[j]} ELSE tabs, tags, j + 1)

\* exclude: the axis names and the named instances' names
ExcludedNameIDs(axes, insts) ==
    {axes[j] : j \in 1..Len(axes)}
        \cup {insts[j].subfamilyNameID : j \in 1..Len(insts)}
        \cup {insts[j].postscriptNameID : j \in 1..Len(insts)}

\* n.nameID not in exclude
Keeps(exclude, nameID) == nameID \notin exclude

\* [n for n in varfont['name'].names if n.nameID not in exclude]
PruneNames(ns, exclude) == SelectSeq(ns, LAMBDA n : Keeps(exclude, n))

\* MVAR_ENTRIES: value tag -> the table holding the field
MVAR_ENTRIES == [hasc |-> "OS/2", undo |-> "post"]

\* the loop over mvar.ValueRecord; err: varfont[tableTag] raised KeyError
RECURSIVE ApplyRecords(_, _, _, _)
ApplyRecords(recs, j, m, tabs) ==
    IF j > Len(recs) THEN [err |-> FALSE, metrics |-> m]
    ELSE LET rec == recs[j]
             delta == otRound(rec.delta, SDen)
         IN  IF rec.ValueTag \notin DOMAIN MVAR_ENTRIES \/ delta = 0
             THEN ApplyRecords(recs, j + 1, m, tabs)
             ELSE IF MVAR_ENTRIES[rec.ValueTag] \notin tabs
             THEN [err |-> TRUE, metrics |-> m]
             ELSE ApplyRecords(recs, j + 1,
                               [m EXCEPT ![rec.ValueTag] = @ + delta], tabs)

\* fvar = varfont['fvar'] (a KeyError without the table), and the location
\* is normalized, through avar when there is one
FnNormalize ==
    /\ fn_pc = "start"
    /\ IF "fvar" \in tables
       THEN /\ fn_pc' = "gvar"
            /\ ran' = IF "avar" \in tables THEN ran \cup {"avar"} ELSE ran
       ELSE /\ fn_pc' = "error"
            /\ ran' = ran
    /\ UNCHANGED <<tables, location, names, axisNameIDs, instances, records, metrics,
                   usWeightClass, usWidthClass, italicAngle, tables0, names0, notFont>>

\* A stage that mutates the tables named by needs when its own table is
\* there.  What the stage computes is modelled where the stage has a
\* specification of its own (SpecGlyf, SpecCvt, SpecPD, SpecCS); here it only
\* runs or is skipped.
TableStage(stage, needs, next) ==
    /\ fn_pc = stage
    /\ IF stage \in tables
       THEN IF needs \subseteq tables
            THEN fn_pc' = next /\ ran' = ran \cup {stage}
            ELSE fn_pc' = "error" /\ ran' = ran
       ELSE fn_pc' = next /\ ran' = ran
    /\ UNCHANGED <<tables, location, names, axisNameIDs, instances, records, metrics,
                   usWeightClass, usWidthClass, italicAngle, tables0, names0, notFont>>

FnGvar == TableStage("gvar", {"glyf"}, "cvar")

FnCvar == TableStage("cvar", {"cvt "}, "CFF2")

FnCFF2 == TableStage("CFF2", {}, "MVAR")

FnMVAR ==
    /\ fn_pc = "MVAR"
    /\ IF "MVAR" \in tables
       THEN LET r == ApplyRecords(records, 1, metrics, tables)
            IN  /\ metrics' = r.metrics
                /\ fn_pc' = IF r.err THEN "error" ELSE "GDEF"
                /\ ran' = IF r.err THEN ran ELSE ran \cup {"MVAR"}
       ELSE fn_pc' = "GDEF" /\ UNCHANGED <<metrics, ran>>
    /\ UNCHANGED <<tables, location, names, axisNameIDs, instances, records,
                   usWeightClass, usWidthClass, italicAngle, tables0, names0, notFont>>

FnGDEF == TableStage("GDEF", {}, "name")

FnName ==
    /\ fn_pc = "name"
    /\ IF "name" \in tables
       THEN /\ names' = PruneNames(names, ExcludedNameIDs(axisNameIDs, instances))
            /\ ran' = ran \cup {"name"}
       ELSE UNCHANGED <<names, ran>>
    /\ fn_pc' = "wght"
    /\ UNCHANGED <<tables, location, axisNameIDs, instances, records, metrics,
                   usWeightClass, usWidthClass, italicAngle, tables0, names0, notFont>>

\* usWeightClass = otRound(max(1, min(location["wght"], 1000)))
FnWght ==
    /\ fn_pc = "wght"
    /\ IF "wght" \in DOMAIN location /\ "OS/2" \in tables
       THEN /\ usWeightClass' = otRound(Max(4 * 1, Min(location["wght"], 4 * 1000)), 4)
            /\ ran' = ran \cup {"wght"}
       ELSE UNCHANGED <<usWeightClass, ran>>
    /\ fn_pc' = "wdth"
    /\ UNCHANGED <<tables, location, names, axisNameIDs, instances, records, metrics,
                   usWidthClass, italicAngle, tables0, names0, notFont>>

\* varfont["OS/2"].usWidthClass = widthClass; no test that OS/2 is there
FnWdth ==
    /\ fn_pc = "wdth"
    /\ IF "wdth" \in DOMAIN location
       THEN IF "OS/2" \in tables
            THEN /\ usWidthClass' = WidthClass(location["wdth"])
                 /\ ran' = ran \cup {"wdth"}
                 /\ fn_pc' = "slnt"
            ELSE /\ fn_pc' = "error"
                 /\ UNCHANGED <<usWidthClass, ran>>
       ELSE /\ fn_pc' = "slnt"
            /\ UNCHANGED <<usWidthClass, ran>>
    /\ UNCHANGED <<tables, location, names, axisNameIDs, instances, records, metrics,
                   usWeightClass, italicAngle, tables0, names0, notFont>>

\* italicAngle = max(-90, min(location["slnt"], 90))
FnSlnt ==
    /\ fn_pc = "slnt"
    /\ IF "slnt" \in DOMAIN location /\ "post" \in tables
       THEN /\ italicAngle' = Max(4 * (-90), Min(location["slnt"], 4 * 90))
            /\ ran' = ran \cup {"slnt"}
       ELSE UNCHANGED <<italicAngle, ran>>
    /\ fn_pc' = "remove"
    /\ UNCHANGED <<tables, location, names, axisNameIDs, instances, records, metrics,
                   usWeightClass, usWidthClass, tables0, names0, notFont>>

\* the variable tables are removed and varfont is returned
FnRemove ==
    /\ fn_pc = "remove"
    /\ tables' = DeleteTables(tables, VariableTables, 1)
    /\ fn_pc' = "done"
    /\ UNCHANGED <<location, names, axisNameIDs, instances, records, metrics,
                   usWeightClass, usWidthClass, italicAngle, ran, tables0, names0, notFont>>

\* Inputs
OptionalTables == {"avar", "gvar", "cvar", "CFF2", "MVAR", "GDEF",
                   "name", "OS/2", "post", "HVAR", "VVAR", "STAT"}

\* a font with gvar has glyf, a font with cvar has cvt
TablesOf(S) ==
    S \cup (IF "gvar" \in S THEN {"glyf"} ELSE {})
      \cup (IF "cvar" \in S THEN {"cvt "} ELSE {})

FullTables == TablesOf(OptionalTables \cup {"fvar"})

Restrict(f, S) == [x \in S |-> f[x]]

\* wght=140 wdth=85 slnt=-12
BasicLocation == [wght |-> 4 * 140, wdth |-> 4 * 85, slnt |-> 4 * (-12)]

WghtValues == {0, 3, 4 * 140, 4 * 140 + 2, 4 * 1000, 4 * 1100}
SlntValues == {4 * (-12), 4 * 140, 4 * (-100), 0}
WdthValues ==
    {0, 4 * 85, 4 * 100, 4 * 200, 4 * 250}
        \cup UNION {{h - 1, h, h + 1} : h \in {225, 275, 325, 375, 425, 475, 550, 700}}

NameIDs == {1, 2, 256, 257}
InstanceSets ==
    {<<>>} \cup {<<[subfamilyNameID |-> sf, postscriptNameID |-> ps]>>
                 : sf \in {2, 257}, ps \in {258, 65535}}

BasicNames == <<1, 2, 256, 257, 258>>
BasicInstances == <<[subfamilyNameID |-> 257, postscriptNameID |-> 258]>>

RecordValues ==
    {[ValueTag |-> tag, delta |-> d] : tag \in {"hasc", "undo", "xxxx"}, d \in {0, 2 * SDen}}
BasicRecords == <<[ValueTag |-> "hasc", delta |-> 0]>>

\* every combination of tables, with every combination of the three axes
FontTablesInit ==
    /\ \E S \in SUBSET OptionalTables, f \in {{}, {"fvar"}} : tables = TablesOf(S \cup f)
    /\ \E A \in SUBSET (DOMAIN BasicLocation) : location = Restrict(BasicLocation, A)
    /\ names = BasicNames /\ instances = BasicInstances /\ records = BasicRecords

\* a complete font, with every name table
FontNamesInit ==
    /\ tables = FullTables
    /\ location = <<>>
    /\ names \in SeqsUpTo(NameIDs, MaxNames)
    /\ instances \in InstanceSets
    /\ records = BasicRecords

\* a complete font, with every value of one axis
FontLocationInit ==
    /\ tables = FullTables
    /\ location \in {[wdth |-> w] : w \in WdthValues}
                       \cup {[wght |-> w] : w \in WghtValues}
                       \cup {[slnt |-> a] : a \in SlntValues}
    /\ names = BasicNames /\ instances = BasicInstances /\ records = BasicRecords

\* a complete font, with every record list
FontRecordsInit ==
    /\ tables = FullTables
    /\ location = <<>>
    /\ names = BasicNames /\ instances = BasicInstances
    /\ records \in SeqsUpTo(RecordValues, MaxRecords)

FontInit ==
    /\ FontTablesInit \/ FontNamesInit \/ FontLocationInit \/ FontRecordsInit
    /\ axisNameIDs = <<256>>
    /\ metrics = [hasc |-> 800, undo |-> 50]
    /\ usWeightClass = 400
    /\ usWidthClass = 5
    /\ italicAngle = 0
    /\ fn_pc = "start"
    /\ ran = {}
    /\ tables0 = tables
    /\ names0 = names

Init == FontInit /\ CsIdle /\ PdIdle /\ CvIdle /\ GvIdle

Next ==
    \/ FnNormalize \/ FnGvar \/ FnCvar \/ FnCFF2 \/ FnMVAR \/ FnGDEF
    \/ FnName \/ FnWght \/ FnWdth \/ FnSlnt \/ FnRemove

Spec == Init /\ [][Next]_vars


-----------------------------------------------------------------------------
(* Claims about instantiateVariableFont *)

\* the table whose presence a stage tests
StageTable(stage) ==
    IF stage \in {"wght", "wdth"} THEN "OS/2"
    ELSE IF stage = "slnt" THEN "post"
    ELSE stage

\* C2: with an fvar table and any subset of the optional tables, and for any
\* location, instantiateVariableFont raises no error and a stage whose table
\* is absent does nothing.
C2_MissingTableNoError ==
    "fvar" \in tables0 =>
        /\ fn_pc # "error"
        /\ \A stage \in ran : StageTable(stage) \in tables0

\* name IDs below 256 have a meaning of their own (family, subfamily, ...)
StandardNameIDs == 0..255

\* C4: pruning removes a name record exactly when its nameID is referenced
\* only by an axis name or a named instance's subfamily/PostScript name; a
\* record whose nameID also serves another purpose is kept, and the kept
\* records stay in order.
C4_PruneOnlyOrphans ==
    "name" \in ran =>
        names = SelectSeq(names0,
                    LAMBDA n : ~(n \in ExcludedNameIDs(axisNameIDs, instances)
                                 /\ n \notin StandardNameIDs))

\* the stages that apply to the input font and location
DueStages ==
    {t \in {"avar", "gvar", "cvar", "CFF2", "MVAR", "GDEF", "name"} : t \in tables0}
        \cup {a \in {"wght", "wdth"} : a \in DOMAIN location /\ "OS/2" \in tables0}
        \cup {a \in {"slnt"} : a \in DOMAIN location /\ "post" \in tables0}

\* C5: the returned font has none of avar, cvar, fvar, gvar, HVAR, MVAR, VVAR,
\* STAT, and no table is deleted before every instancer stage, the name
\* pruning and the weight/width/slant writes have run.
C5_VariationTablesRemovedLast ==
    /\ fn_pc = "done" =>
           tables \cap {"avar", "cvar", "fvar", "gvar", "HVAR", "MVAR", "VVAR", "STAT"} = {}
    /\ tables # tables0 => (fn_pc = "done" /\ ran = DueStages)

C5_Witness ==
    /\ fn_pc = "done"
    /\ tables0 = FullTables
    /\ DOMAIN location = {"wght", "wdth", "slnt"}
    /\ tables = {"glyf", "cvt ", "CFF2", "GDEF", "name", "OS/2", "post"}

\* the 8 midpoints 56.25 .. 175, in quarters of a percent
Midpoints == <<225, 275, 325, 375, 425, 475, 550, 700>>

\* the 1-based index of the first midpoint that strictly exceeds w, or 9
FirstExceeding(w) ==
    LET S == {j \in 1..Len(Midpoints) : Midpoints[j] > w}
    IN  IF S = {} THEN 9 ELSE CHOOSE j \in S : \A h \in S : j <= h

\* C6: the stored width class is the 1-based index of the first of the 8
\* midpoints that strictly exceeds wdth, or 9; a value equal to a midpoint
\* gets the higher class, wdth=85 gives 4, wdth=200 gives 9, always in 1..9.
C6_WidthClass ==
    "wdth" \in ran =>
        LET w == location["wdth"]
        IN  /\ usWidthClass = FirstExceeding(w)
            /\ usWidthClass \in 1..9
            /\ \A j \in 1..Len(Midpoints) : w = Midpoints[j] => usWidthClass = j + 1
            /\ w = 4 * 85 => usWidthClass = 4
            /\ w = 4 * 200 => usWidthClass = 9

\* wdth = 81.25, a midpoint
C6_Witness ==
    /\ "wdth" \in ran
    /\ location["wdth"] = 325
    /\ usWidthClass = 4

=============================================================================
